---- MODULE Spec2Model ----
(***************************************************************************)
(* A model of the `wasmtime compile` and `wasmtime wast` command handlers  *)
(* (src/commands/compile.rs, src/commands/wast.rs) and of the dispatch in  *)
(* src/bin/wasmtime.rs.  Each `execute` is a straight-line pipeline; the   *)
(* model gives one action per statement of the pipeline so that the order  *)
(* of the side effects (filesystem, engine construction, interpreter       *)
(* calls) can be stated.                                                   *)
(***************************************************************************)
EXTENDS Integers, Sequences, FiniteSets, TLC

VARIABLES
    cmd,            \* the subcommand dispatched by Wasmtime::execute
    pc,             \* the position inside the running `execute`
    result,         \* what `execute` returned: running / ok / err / panic
    trace,          \* every call to a collaborator or to the filesystem, in order
    featWat,        \* build configuration: #[cfg(feature = "wat")]
    target,         \* CompileCommand.target ("" is None)
    flags,          \* the -Ccranelift-* flags of CommonOptions
    module,         \* CompileCommand.module
    output,         \* CompileCommand.output
    emit_clif,      \* CompileCommand.emit_clif
    scripts,        \* WastCommand.scripts
    fs,             \* the filesystem: path -> entry (absent when not in the domain)
    fs0,            \* the filesystem when the command started (never changes)
    config,         \* the wasmtime::Config being built
    engines,        \* number of engines constructed by Engine::new
    input,          \* the bytes loaded from the input file
    out_path,       \* the local `output` of CompileCommand::execute
    output_bytes,   \* the bytes returned by the precompile call
    stores,         \* number of stores constructed by Store::new
    contexts,       \* number of WastContexts constructed
    wast_context,   \* the WastContext of the run: its id and its accumulated state
    idx,            \* the loop position of `for script in self.scripts.iter()`
    runLog          \* one record per run_file call

vars == <<cmd, pc, result, trace, featWat, target, flags, module, output,
          emit_clif, scripts, fs, fs0, config, engines, input, out_path, output_bytes,
          stores, contexts, wast_context, idx, runLog>>

(***************************************************************************)
(* Bounds of the model.                                                    *)
(***************************************************************************)
MaxPathLen == 4
MaxScripts == 3

(***************************************************************************)
(* Option values, paths and bytes.                                         *)
(***************************************************************************)
None == [some |-> FALSE, v |-> <<>>]
Some(x) == [some |-> TRUE, v |-> x]

\* A path is a sequence of characters; "/" is the separator.
Chars == {"a", ".", "/"}

RECURSIVE SeqsUpTo(_, _)
SeqsUpTo(S, n) ==
    IF n = 0 THEN {<<>>}
    ELSE LET shorter == SeqsUpTo(S, n - 1)
         IN  shorter \cup {Append(s, c) : s \in {t \in shorter : Len(t) = n - 1}, c \in S}

Paths == SeqsUpTo(Chars, MaxPathLen)

\* The artifact extension of `output.set_extension("cwasm")`.
CwasmExt == <<"c", "w", "a", "s", "m">>

\* File contents.  fmt: wat (text), wasm (binary), garbage, cwasm (artifact),
\* old (whatever was at the output path before), partial (a torn write).
Bytes(fmt, kind) == [fmt |-> fmt, kind |-> kind]
NoBytes == Bytes("none", "none")
InputContents ==
    { Bytes("wat", "module"), Bytes("wat", "component"),
      Bytes("wasm", "module"), Bytes("wasm", "component"),
      Bytes("garbage", "none") }

Absent == [kind |-> "absent", data |-> NoBytes]
Dir == [kind |-> "dir", data |-> NoBytes]
File(d) == [kind |-> "file", data |-> d]

Lookup(f, p) == IF p \in DOMAIN f THEN f[p] ELSE Absent
Put(f, p, e) == [q \in (DOMAIN f) \cup {p} |-> IF q = p THEN e ELSE f[q]]

(***************************************************************************)
(* std::path: components, file_name, file_stem, set_extension.             *)
(***************************************************************************)
RECURSIVE Segments(_, _)
Segments(p, cur) ==
    IF p = <<>> THEN (IF cur = <<>> THEN <<>> ELSE <<cur>>)
    ELSE IF Head(p) = "/"
         THEN (IF cur = <<>> THEN <<>> ELSE <<cur>>) \o Segments(Tail(p), <<>>)
         ELSE Segments(Tail(p), Append(cur, Head(p)))

\* The kind of the last component Path::components() yields: repeated and
\* trailing separators are dropped, "." is dropped except as the first
\* component of a relative path.
RECURSIVE LastComponent(_)
LastComponent(segs) ==
    IF segs = <<>> THEN [kind |-> "none", name |-> <<>>]
    ELSE LET last == segs[Len(segs)]
         IN  IF last = <<".">> THEN LastComponent(SubSeq(segs, 1, Len(segs) - 1))
             ELSE IF last = <<".", ".">> THEN [kind |-> "ParentDir", name |-> last]
             ELSE [kind |-> "Normal", name |-> last]

FileName(p) ==
    LET c == LastComponent(Segments(p, <<>>))
    IN  IF c.kind = "Normal" THEN Some(c.name) ELSE None

RECURSIVE LastDot(_)
LastDot(name) ==
    IF name = <<>> THEN 0
    ELSE IF name[Len(name)] = "." THEN Len(name)
    ELSE LastDot(SubSeq(name, 1, Len(name) - 1))

\* rsplit_file_at_dot: a name with no dot, or whose only dot is the first
\* character, is all stem.
FileStem(name) ==
    LET i == LastDot(name)
    IN  IF i <= 1 THEN name ELSE SubSeq(name, 1, i - 1)

SetExtension(name, ext) == FileStem(name) \o <<".">> \o ext

(***************************************************************************)
(* anyhow::Error: a root message (with the path it prints, if any) and the *)
(* contexts added on the way up; Display prints the outermost context.     *)
(***************************************************************************)
Err(msg, path) == [msg |-> msg, path |-> path, ctx |-> <<>>]
NoErr == Err("", None)
WithContext(e, op, path) == [e EXCEPT !.ctx = Append(@, [op |-> op, path |-> path])]
Display(e) == IF e.ctx = <<>> THEN e.msg ELSE e.ctx[Len(e.ctx)].op

Running == [status |-> "running", err |-> NoErr]
Ok == [status |-> "ok", err |-> NoErr]
Failed(e) == [status |-> "err", err |-> e]
Panicked(msg) == [status |-> "panic", err |-> Err(msg, None)]

Ev(op, path) == [op |-> op, path |-> path]

(***************************************************************************)
(* The collaborators, as far as the commands and their tests fix them.     *)
(***************************************************************************)
\* The tests of compile.rs run on an x86_64 host.
HostArch == "x86_64"
HasLseDiagnostic == "No existing setting named 'has_lse'"

\* CommonOptions::config(target): None ("") is the host.
ConfigResult(tgt, fl) ==
    IF tgt = "bogus"
    THEN [ok |-> FALSE, err |-> Err("unrecognized target triple", None),
          config |-> [target |-> tgt, flags |-> fl, emit_clif |-> None]]
    ELSE [ok |-> TRUE, err |-> NoErr,
          config |-> [target |-> tgt, flags |-> fl, emit_clif |-> None]]

\* Engine::new(&config): an AArch64-only flag on x86_64 is refused by the backend.
EngineNewResult(cfg) ==
    IF "has_lse" \in cfg.flags /\ HostArch = "x86_64"
    THEN [ok |-> FALSE, err |-> Err(HasLseDiagnostic, None)]
    ELSE [ok |-> TRUE, err |-> NoErr]

\* wasmparser::Parser::is_component: a sniff of the binary header.
IsComponent(bytes) == bytes.fmt = "wasm" /\ bytes.kind = "component"

\* What may be found at the input path.
InputEntries == {Absent, Dir} \cup {File(d) : d \in InputContents}

\* wat::parse_file (feature "wat"): binary passes through, text is converted.
WatParseFile(e) ==
    IF e.kind # "file" THEN [ok |-> FALSE, err |-> Err("failed to read", None), bytes |-> NoBytes]
    ELSE IF e.data.fmt = "wasm" THEN [ok |-> TRUE, err |-> NoErr, bytes |-> e.data]
    ELSE IF e.data.fmt = "wat"
         THEN [ok |-> TRUE, err |-> NoErr, bytes |-> Bytes("wasm", e.data.kind)]
    ELSE [ok |-> FALSE, err |-> Err("parse error", None), bytes |-> NoBytes]

\* std::fs::read (no feature "wat"): the raw bytes, whatever they are.
FsRead(e) ==
    IF e.kind # "file" THEN [ok |-> FALSE, err |-> Err("os error", None), bytes |-> NoBytes]
    ELSE [ok |-> TRUE, err |-> NoErr, bytes |-> e.data]

\* #[cfg(feature = "wat")] / #[cfg(not(feature = "wat"))], with their contexts.
LoadResult(wat, path, e) ==
    IF wat
    THEN LET r == WatParseFile(e)
         IN  [r EXCEPT !.err = IF r.ok THEN NoErr
                                ELSE WithContext(r.err, "failed to read input file", None)]
    ELSE LET r == FsRead(e)
         IN  [r EXCEPT !.err = IF r.ok THEN NoErr
                                ELSE WithContext(r.err, "failed to read input file", Some(path))]

\* Mutant: the extension is set on the whole input path, directory kept.
DeriveOutput_KeepsDirectory(out, mod) ==
    IF out.some THEN out.v ELSE mod \o <<".">> \o CwasmExt

\* self.output.take().unwrap_or_else(|| file_name + set_extension("cwasm"))
DeriveOutput(out, mod) ==
    IF out.some THEN out.v ELSE SetExtension(FileName(mod).v, CwasmExt)

\* Mutant: the sniff is ignored.
EntryPoint_AlwaysModule(bytes) == "precompile_module"

\* The engine entry point chosen for the loaded bytes.
EntryPoint(bytes) ==
    IF IsComponent(bytes) THEN "precompile_component" ELSE "precompile_module"

\* Whether the entry point can accept the bytes at all (it may still fail).
Compilable(entry, bytes) ==
    /\ bytes.fmt = "wasm"
    /\ bytes.kind = (IF entry = "precompile_component" THEN "component" ELSE "module")

Artifact(entry) ==
    Bytes("cwasm", IF entry = "precompile_component" THEN "component" ELSE "module")

(***************************************************************************)
(* The initial states: a parsed command line, a build configuration and a  *)
(* filesystem.                                                             *)
(***************************************************************************)
\* The command line, the build and the first filesystem never change.
request == <<cmd, featWat, target, flags, module, output, emit_clif, scripts, fs0>>
compileState == <<fs, input, out_path, output_bytes>>
wastState == <<stores, contexts, wast_context, idx, runLog>>

Targets == {"", "bogus"}
FlagSets == {{}, {"has_lse"}}

\* --emit-clif: not given, or a path that is absent, a directory or a regular file.
EmitDir == <<"d">>
OldFile == File(Bytes("old", "none"))
EmitChoices ==
    {[arg |-> None, entry |-> Absent]}
        \cup {[arg |-> Some(EmitDir), entry |-> e] : e \in {Absent, Dir, OldFile}}

\* -o: not given, or an explicit path (with or without an extension) that is
\* absent, an existing file or a directory.
ExplicitOutputs == {<<"o">>, <<"o", ".", "w">>}
OutputChoices ==
    {[arg |-> None, entry |-> Absent]}
        \cup {[arg |-> Some(o), entry |-> e] : o \in ExplicitOutputs, e \in {Absent, OldFile}}
        \cup {[arg |-> Some(<<"o">>), entry |-> Dir]}

InitFs(e, o) ==
    LET f1 == IF e.arg.some /\ e.entry # Absent THEN Put(<<>>, e.arg.v, e.entry) ELSE <<>>
    IN  IF o.arg.some /\ o.entry # Absent THEN Put(f1, o.arg.v, o.entry) ELSE f1

ScriptPaths == {<<"A">>, <<"B">>, <<"C">>}
ScriptLists == SeqsUpTo(ScriptPaths, MaxScripts) \ {<<>>}

NoContext == [id |-> 0, store |-> 0, state |-> {}]

InitCommon ==
    /\ pc = "config"
    /\ result = Running
    /\ trace = <<>>
    /\ config = [target |-> "", flags |-> {}, emit_clif |-> None]
    /\ engines = 0
    /\ input = NoBytes
    /\ out_path = None
    /\ output_bytes = NoBytes
    /\ stores = 0
    /\ contexts = 0
    /\ wast_context = NoContext
    /\ idx = 1
    /\ runLog = <<>>

InitCompile ==
    /\ cmd = "compile"
    /\ featWat \in BOOLEAN
    /\ target \in Targets
    /\ flags \in FlagSets
    /\ module \in Paths
    /\ \E e \in EmitChoices, o \in OutputChoices :
          /\ emit_clif = e.arg
          /\ output = o.arg
          /\ fs = InitFs(e, o)
          /\ fs0 = InitFs(e, o)
    /\ scripts = <<>>

InitWast ==
    /\ cmd = "wast"
    /\ featWat \in BOOLEAN
    /\ target = ""
    /\ flags \in FlagSets
    /\ module = <<>>
    /\ output = None
    /\ emit_clif = None
    /\ fs = <<>>
    /\ fs0 = <<>>
    /\ scripts \in ScriptLists

Init == InitCommon /\ (InitCompile \/ InitWast)

(***************************************************************************)
(* CompileCommand::execute, statement by statement.                        *)
(***************************************************************************)
\* `?` / bail!: execute returns the error.
Return(r) == pc' = "done" /\ result' = r

\* let mut config = self.common.config(self.target.as_deref())?;
CompileConfig ==
    /\ cmd = "compile" /\ pc = "config"
    /\ LET r == ConfigResult(target, flags)
       IN  /\ trace' = Append(trace, Ev("config", None))
           /\ IF r.ok
              THEN config' = r.config /\ pc' = "emit_clif" /\ UNCHANGED result
              ELSE Return(Failed(r.err)) /\ UNCHANGED config
    /\ UNCHANGED <<request, compileState, wastState, engines>>

\* Mutant: the `!path.is_dir()` test is missing.
CompileEmitClif_NoDirCheck ==
    /\ cmd = "compile" /\ pc = "emit_clif"
    /\ IF ~emit_clif.some
       THEN pc' = "engine" /\ UNCHANGED <<result, trace, fs, config>>
       ELSE LET path == emit_clif.v
                exists == Lookup(fs, path).kind # "absent"
            IN  \E created \in (IF exists THEN {"skipped"} ELSE {"ok", "err"}) :
                  LET tr1 == Append(trace, Ev("exists", Some(path)))
                      tr2 == IF exists THEN tr1 ELSE Append(tr1, Ev("create_dir", Some(path)))
                  IN  IF created = "err"
                      THEN /\ Return(Failed(Err("os error", None)))
                           /\ trace' = tr2
                           /\ UNCHANGED <<fs, config>>
                      ELSE /\ fs' = IF created = "ok" THEN Put(fs, path, Dir) ELSE fs
                           /\ trace' = tr2
                           /\ config' = [config EXCEPT !.emit_clif = Some(path)]
                           /\ pc' = "engine"
                           /\ UNCHANGED result
    /\ UNCHANGED <<request, input, out_path, output_bytes, wastState, engines>>

\* if let Some(path) = self.emit_clif { ... }
CompileEmitClif ==
    /\ cmd = "compile" /\ pc = "emit_clif"
    /\ IF ~emit_clif.some
       THEN pc' = "engine" /\ UNCHANGED <<result, trace, fs, config>>
       ELSE LET path == emit_clif.v
                exists == Lookup(fs, path).kind # "absent"
            IN  \E created \in (IF exists THEN {"skipped"} ELSE {"ok", "err"}) :
                  LET fs1 == IF created = "ok" THEN Put(fs, path, Dir) ELSE fs
                      tr1 == Append(trace, Ev("exists", Some(path)))
                      tr2 == IF exists THEN tr1 ELSE Append(tr1, Ev("create_dir", Some(path)))
                  IN  IF created = "err"
                      THEN /\ Return(Failed(Err("os error", None)))
                           /\ trace' = tr2
                           /\ UNCHANGED <<fs, config>>
                      ELSE /\ fs' = fs1
                           /\ trace' = Append(tr2, Ev("is_dir", Some(path)))
                           /\ IF Lookup(fs1, path).kind # "dir"
                              THEN /\ Return(Failed(Err("must be a directory", Some(path))))
                                   /\ UNCHANGED config
                              ELSE /\ config' = [config EXCEPT !.emit_clif = Some(path)]
                                   /\ pc' = "engine"
                                   /\ UNCHANGED result
    /\ UNCHANGED <<request, input, out_path, output_bytes, wastState, engines>>

\* Mutant: the engine's error is wrapped in a context.
CompileEngine_WithContext ==
    /\ cmd = "compile" /\ pc = "engine"
    /\ LET r == EngineNewResult(config)
       IN  /\ trace' = Append(trace, Ev("Engine::new", None))
           /\ IF r.ok
              THEN engines' = engines + 1 /\ pc' = "validate" /\ UNCHANGED result
              ELSE /\ Return(Failed(WithContext(r.err, "failed to create engine", None)))
                   /\ UNCHANGED engines
    /\ UNCHANGED <<request, compileState, wastState, config>>

\* let engine = Engine::new(&config)?;
CompileEngine ==
    /\ cmd = "compile" /\ pc = "engine"
    /\ LET r == EngineNewResult(config)
       IN  /\ trace' = Append(trace, Ev("Engine::new", None))
           /\ IF r.ok
              THEN engines' = engines + 1 /\ pc' = "validate" /\ UNCHANGED result
              ELSE Return(Failed(r.err)) /\ UNCHANGED engines
    /\ UNCHANGED <<request, compileState, wastState, config>>

\* Mutant: the input path is not validated.
CompileValidate_Skipped ==
    /\ cmd = "compile" /\ pc = "validate"
    /\ pc' = "load"
    /\ UNCHANGED <<request, compileState, wastState, config, engines, trace, result>>

\* if self.module.file_name().is_none() { bail!(...) }
CompileValidate ==
    /\ cmd = "compile" /\ pc = "validate"
    /\ IF FileName(module).some
       THEN pc' = "load" /\ UNCHANGED result
       ELSE Return(Failed(Err("is not a valid input module path", Some(module))))
    /\ UNCHANGED <<request, compileState, wastState, config, engines, trace>>

\* let input = wat::parse_file(..) / std::fs::read(..), with its context
CompileLoad ==
    /\ cmd = "compile" /\ pc = "load"
    /\ \E e \in InputEntries :
          LET r == LoadResult(featWat, module, e)
          IN  /\ trace' = Append(trace, Ev("read", Some(module)))
              /\ IF r.ok
                 THEN input' = r.bytes /\ pc' = "derive" /\ UNCHANGED result
                 ELSE Return(Failed(r.err)) /\ UNCHANGED input
    /\ UNCHANGED <<request, fs, out_path, output_bytes, wastState, config, engines>>

\* let output = self.output.take().unwrap_or_else(..);
CompileDeriveOutput ==
    /\ cmd = "compile" /\ pc = "derive"
    /\ out_path' = Some(DeriveOutput(output, module))
    /\ pc' = "precompile"
    /\ UNCHANGED <<request, fs, input, output_bytes, wastState, config, engines,
                   trace, result>>

\* Mutant: a failing precompilation is not propagated.
CompilePrecompile_IgnoresError ==
    /\ cmd = "compile" /\ pc = "precompile"
    /\ LET entry == EntryPoint(input)
       IN  \E compiled \in (IF Compilable(entry, input) THEN BOOLEAN ELSE {FALSE}) :
             /\ trace' = Append(trace, Ev(entry, None))
             /\ output_bytes' = IF compiled THEN Artifact(entry) ELSE NoBytes
             /\ pc' = "write"
             /\ UNCHANGED result
    /\ UNCHANGED <<request, fs, input, out_path, wastState, config, engines>>

\* let output_bytes = if is_component(&input) { precompile_component(&input)? }
\*                    else { precompile_module(&input)? };
CompilePrecompile ==
    /\ cmd = "compile" /\ pc = "precompile"
    /\ LET entry == EntryPoint(input)
       IN  \E compiled \in (IF Compilable(entry, input) THEN BOOLEAN ELSE {FALSE}) :
             /\ trace' = Append(trace, Ev(entry, None))
             /\ IF compiled
                THEN output_bytes' = Artifact(entry) /\ pc' = "write" /\ UNCHANGED result
                ELSE Return(Failed(Err("compile error", None))) /\ UNCHANGED output_bytes
    /\ UNCHANGED <<request, fs, input, out_path, wastState, config, engines>>

\* fs::write(&output, output_bytes).with_context(..)?; Ok(())
\* A failing write either never opens the file or leaves it torn.
CompileWrite ==
    /\ cmd = "compile" /\ pc = "write"
    /\ LET path == out_path.v
           werr == WithContext(Err("os error", None), "failed to write output", Some(path))
       IN  /\ trace' = Append(trace, [op |-> "write", path |-> Some(path)])
           /\ IF Lookup(fs, path).kind = "dir"
              THEN Return(Failed(werr)) /\ UNCHANGED fs
              ELSE \E outcome \in {"ok", "not_opened", "torn"} :
                     IF outcome = "ok"
                     THEN fs' = Put(fs, path, File(output_bytes)) /\ Return(Ok)
                     ELSE IF outcome = "torn"
                     THEN fs' = Put(fs, path, File(Bytes("partial", output_bytes.kind)))
                            /\ Return(Failed(werr))
                     ELSE Return(Failed(werr)) /\ UNCHANGED fs
    /\ UNCHANGED <<request, input, out_path, output_bytes, wastState, config, engines>>

(***************************************************************************)
(* WastCommand::execute, statement by statement.                           *)
(***************************************************************************)
\* What the scripts of the run hold: A declares a global that B reads.
Declares(s) == IF s = <<"A">> THEN {"g"} ELSE IF s = <<"C">> THEN {"h"} ELSE {}
Requires(s) == IF s = <<"B">> THEN {"g"} ELSE {}

\* The outcomes WastContext::run_file may have on a context in state `st`.
RunFileOutcomes(st, s) == IF Requires(s) \subseteq st THEN BOOLEAN ELSE {FALSE}

\* Mutant: the interpreter's error is returned as it is.
ScriptError_NoContext(e, s) == e

\* .with_context(|| format!("failed to run script file '{}'", script.display()))
ScriptError(e, s) == WithContext(e, "failed to run script file", Some(s))

\* let config = self.common.config(None)?;
WastConfig ==
    /\ cmd = "wast" /\ pc = "config"
    /\ LET r == ConfigResult("", flags)
       IN  /\ trace' = Append(trace, Ev("config", None))
           /\ IF r.ok
              THEN config' = r.config /\ pc' = "store" /\ UNCHANGED result
              ELSE Return(Failed(r.err)) /\ UNCHANGED config
    /\ UNCHANGED <<request, compileState, wastState, engines>>

\* let store = Store::new(&Engine::new(&config)?, ());
\* let mut wast_context = WastContext::new(store);
WastStore ==
    /\ cmd = "wast" /\ pc = "store"
    /\ LET r == EngineNewResult(config)
       IN  IF r.ok
           THEN /\ engines' = engines + 1
                /\ stores' = stores + 1
                /\ contexts' = contexts + 1
                /\ wast_context' = [id |-> contexts + 1, store |-> stores + 1, state |-> {}]
                /\ trace' = trace \o <<Ev("Engine::new", None), Ev("Store::new", None),
                                       Ev("WastContext::new", None)>>
                /\ pc' = "spectest"
                /\ UNCHANGED result
           ELSE /\ trace' = Append(trace, Ev("Engine::new", None))
                /\ Return(Failed(r.err))
                /\ UNCHANGED <<engines, stores, contexts, wast_context>>
    /\ UNCHANGED <<request, compileState, config, idx, runLog>>

\* Mutant: `?` in place of `.expect(..)`.
WastSpectest_ReturnsErr ==
    /\ cmd = "wast" /\ pc = "spectest"
    /\ trace' = Append(trace, Ev("register_spectest", None))
    /\ \E registered \in BOOLEAN :
          IF registered
          THEN /\ wast_context' = [wast_context EXCEPT !.state = @ \cup {"spectest"}]
               /\ pc' = "loop"
               /\ UNCHANGED result
          ELSE /\ Return(Failed(Err("error instantiating \"spectest\"", None)))
               /\ UNCHANGED wast_context
    /\ UNCHANGED <<request, compileState, config, engines, stores, contexts, idx, runLog>>

\* wast_context.register_spectest(true).expect("error instantiating \"spectest\"");
WastSpectest ==
    /\ cmd = "wast" /\ pc = "spectest"
    /\ trace' = Append(trace, Ev("register_spectest", None))
    /\ \E registered \in BOOLEAN :
          IF registered
          THEN /\ wast_context' = [wast_context EXCEPT !.state = @ \cup {"spectest"}]
               /\ pc' = "loop"
               /\ UNCHANGED result
          ELSE /\ Return(Panicked("error instantiating \"spectest\""))
               /\ UNCHANGED wast_context
    /\ UNCHANGED <<request, compileState, config, engines, stores, contexts, idx, runLog>>

\* Mutant: the loop goes on after a failing script and reports the last failure.
WastRunScript_ContinueOnError ==
    /\ cmd = "wast" /\ pc = "loop" /\ idx <= Len(scripts)
    /\ LET script == scripts[idx]
       IN  \E ran \in RunFileOutcomes(wast_context.state, script) :
             /\ trace' = Append(trace, Ev("run_file", Some(script)))
             /\ runLog' = Append(runLog, [script |-> script, pos |-> idx,
                                          ctx |-> wast_context.id,
                                          seen |-> wast_context.state, ok |-> ran])
             /\ idx' = idx + 1
             /\ IF ran
                THEN /\ wast_context' = [wast_context EXCEPT !.state = @ \cup Declares(script)]
                     /\ UNCHANGED <<pc, result>>
                ELSE /\ IF idx = Len(scripts)
                        THEN Return(Failed(ScriptError(Err("script failed", None), script)))
                        ELSE UNCHANGED <<pc, result>>
                     /\ UNCHANGED wast_context
    /\ UNCHANGED <<request, compileState, config, engines, stores, contexts>>

\* Mutant: every script gets a store and a context of its own.
WastRunScript_FreshContext ==
    /\ cmd = "wast" /\ pc = "loop" /\ idx <= Len(scripts)
    /\ LET script == scripts[idx]
           fresh == IF idx = 1 THEN wast_context
                    ELSE [id |-> contexts + 1, store |-> stores + 1, state |-> {"spectest"}]
       IN  \E ran \in RunFileOutcomes(fresh.state, script) :
             /\ trace' = Append(trace, Ev("run_file", Some(script)))
             /\ runLog' = Append(runLog, [script |-> script, pos |-> idx,
                                          ctx |-> fresh.id,
                                          seen |-> fresh.state, ok |-> ran])
             /\ stores' = fresh.store
             /\ contexts' = fresh.id
             /\ IF ran
                THEN /\ wast_context' = [fresh EXCEPT !.state = @ \cup Declares(script)]
                     /\ idx' = idx + 1
                     /\ UNCHANGED <<pc, result>>
                ELSE /\ Return(Failed(ScriptError(Err("script failed", None), script)))
                     /\ wast_context' = fresh
                     /\ UNCHANGED idx
    /\ UNCHANGED <<request, compileState, config, engines>>

\* for script in self.scripts.iter() { wast_context.run_file(script).with_context(..)? }
WastRunScript ==
    /\ cmd = "wast" /\ pc = "loop" /\ idx <= Len(scripts)
    /\ LET script == scripts[idx]
       IN  \E ran \in RunFileOutcomes(wast_context.state, script) :
             /\ trace' = Append(trace, Ev("run_file", Some(script)))
             /\ runLog' = Append(runLog, [script |-> script, pos |-> idx,
                                          ctx |-> wast_context.id,
                                          seen |-> wast_context.state, ok |-> ran])
             /\ IF ran
                THEN /\ wast_context' = [wast_context EXCEPT !.state = @ \cup Declares(script)]
                     /\ idx' = idx + 1
                     /\ UNCHANGED <<pc, result>>
                ELSE /\ Return(Failed(ScriptError(Err("script failed", None), script)))
                     /\ UNCHANGED <<wast_context, idx>>
    /\ UNCHANGED <<request, compileState, config, engines, stores, contexts>>

\* Ok(())
WastFinish ==
    /\ cmd = "wast" /\ pc = "loop" /\ idx > Len(scripts)
    /\ Return(Ok)
    /\ UNCHANGED <<request, compileState, wastState, config, engines, trace>>

(***************************************************************************)
(* Wasmtime::execute dispatches to the one subcommand.                     *)
(***************************************************************************)
Compile ==
    \/ CompileConfig
    \/ CompileEmitClif
    \/ CompileEngine
    \/ CompileValidate
    \/ CompileLoad
    \/ CompileDeriveOutput
    \/ CompilePrecompile
    \/ CompileWrite

Wast ==
    \/ WastConfig
    \/ WastStore
    \/ WastSpectest
    \/ WastRunScript
    \/ WastFinish

Next == Compile \/ Wast

Spec == Init /\ [][Next]_vars

(***************************************************************************)
(* Vocabulary of the properties.                                           *)
(***************************************************************************)
Count(op) == Cardinality({i \in DOMAIN trace : trace[i].op = op})
Called(op) == \E i \in DOMAIN trace : trace[i].op = op
LastOp == IF trace = <<>> THEN "" ELSE trace[Len(trace)].op
\* The calls that touch the filesystem.
FsOps == {"exists", "create_dir", "is_dir", "read", "write"}
PrecompileCalls == Count("precompile_component") + Count("precompile_module")
Done == pc = "done"
InvalidPathError == Err("is not a valid input module path", Some(module))

(***************************************************************************)
(* C1.  WastCommand::execute runs the scripts in the order given, each     *)
(* list position at most once; the scripts run are the prefix of the list  *)
(* up to and including the first failing one; the error returned is that   *)
(* failure wrapped with a context naming the failing script's path; Ok is  *)
(* returned only when every script was run and succeeded.                  *)
(***************************************************************************)
C1_ScriptsRunArePrefix ==
    cmd = "wast" =>
        /\ Len(runLog) <= Len(scripts)
        /\ Count("run_file") = Len(runLog)
        /\ \A i \in DOMAIN runLog :
              /\ runLog[i].pos = i
              /\ runLog[i].script = scripts[i]
              /\ ~runLog[i].ok => i = Len(runLog)
        /\ \A i \in DOMAIN runLog :
              ~runLog[i].ok =>
                  /\ Done
                  /\ result.status = "err"
                  /\ result.err.msg = "script failed"
                  /\ result.err.ctx =
                        <<[op |-> "failed to run script file", path |-> Some(scripts[i])]>>
        /\ result.status = "ok" =>
              /\ Len(runLog) = Len(scripts)
              /\ \A i \in DOMAIN runLog : runLog[i].ok

\* A run of three scripts whose second fails: the third is never attempted.
C1_Witness ==
    /\ cmd = "wast" /\ Done /\ result.status = "err"
    /\ Len(scripts) = 3 /\ Len(runLog) = 2
    /\ runLog[1].ok /\ ~runLog[2].ok

(***************************************************************************)
(* C2.  As claimed: in every run on an input path with no file-name        *)
(* component, Engine::new is never called and no filesystem operation is   *)
(* performed.                                                              *)
(***************************************************************************)
C2_Original ==
    (cmd = "compile" /\ ~FileName(module).some) =>
        /\ ~Called("Engine::new")
        /\ \A i \in DOMAIN trace : trace[i].op \notin FsOps

(***************************************************************************)
(* C2, amended.  On an input path with no file-name component compile      *)
(* never reads the input, never precompiles and never writes an output,    *)
(* and never returns Ok; the validation runs after configuration, the      *)
(* --emit-clif step and Engine::new, so the invalid-path error is returned *)
(* exactly when those succeeded (Engine::new was then called once), and    *)
(* otherwise the earlier step's error is returned.                         *)
(***************************************************************************)
C2_InvalidPathAfterEngine ==
    (cmd = "compile" /\ ~FileName(module).some) =>
        /\ ~Called("read") /\ ~Called("write") /\ PrecompileCalls = 0
        /\ pc \notin {"load", "derive", "precompile", "write"}
        /\ result.status # "ok"
        /\ \A p \in (DOMAIN fs) \ {EmitDir} : Lookup(fs, p) = Lookup(fs0, p)
        /\ Done => (result = Failed(InvalidPathError) <=> engines = 1)
        /\ result = Failed(InvalidPathError) =>
              /\ Count("Engine::new") = 1
              /\ LastOp = "Engine::new"

\* The invalid-path error, returned after the --emit-clif directory was
\* created and the engine constructed.
C2_Witness ==
    /\ cmd = "compile" /\ Done
    /\ ~FileName(module).some
    /\ module # <<>> /\ module[Len(module)] = "/"
    /\ result = Failed(InvalidPathError)
    /\ Called("create_dir") /\ Lookup(fs, EmitDir) = Dir
    /\ engines = 1

(***************************************************************************)
(* C3.  For every input that loads, compile calls exactly one of           *)
(* precompile_component and precompile_module, exactly once: the component *)
(* entry point if and only if is_component holds of the loaded bytes.      *)
(***************************************************************************)
C3_OneEntryPoint ==
    cmd = "compile" =>
        /\ PrecompileCalls <= 1
        /\ input = NoBytes => PrecompileCalls = 0
        /\ (input # NoBytes /\ pc \in {"write", "done"}) =>
              /\ PrecompileCalls = 1
              /\ Count("precompile_component") = 1 <=> IsComponent(input)
              /\ Count("precompile_module") = 1 <=> ~IsComponent(input)

\* A binary component was loaded and went to precompile_component.
C3_Witness ==
    /\ cmd = "compile" /\ Done
    /\ input = Bytes("wasm", "component")
    /\ Count("precompile_component") = 1 /\ Count("precompile_module") = 0

(***************************************************************************)
(* C4.  The path written is a function of the request: an explicit -o is   *)
(* used verbatim; otherwise it is the final component of the input path    *)
(* alone (no directory), with the part after its last dot replaced by      *)
(* "cwasm", and with ".cwasm" appended when the name has no extension (no  *)
(* dot after its first character).                                         *)
(***************************************************************************)
\* `r` is what may follow the final component: separators and "." segments.
OnlyTrailers(r) ==
    \A k \in DOMAIN r :
        \/ r[k] = "/"
        \/ /\ r[k] = "." /\ k > 1 /\ r[k - 1] = "/"
           /\ (k = Len(r) \/ r[k + 1] = "/")

IsFinalComponent(name, p) ==
    /\ name # <<>> /\ name # <<".">> /\ name # <<".", ".">>
    /\ \A k \in DOMAIN name : name[k] # "/"
    /\ \E i \in 1..Len(p) :
          /\ i + Len(name) - 1 <= Len(p)
          /\ SubSeq(p, i, i + Len(name) - 1) = name
          /\ (i = 1 \/ p[i - 1] = "/")
          /\ LET r == SubSeq(p, i + Len(name), Len(p))
             IN  (r = <<>> \/ r[1] = "/") /\ OnlyTrailers(r)

Replaced(name, w) ==
    LET dots == {k \in 2..Len(name) : name[k] = "."}
    IN  IF dots = {}
        THEN w = name \o <<".", "c", "w", "a", "s", "m">>
        ELSE \E k \in dots :
                /\ \A j \in dots : j <= k
                /\ w = SubSeq(name, 1, k - 1) \o <<".", "c", "w", "a", "s", "m">>

EmitOps == {"exists", "create_dir", "is_dir"}

C5_EmitClifBeforeEngine ==
    (cmd = "compile" /\ emit_clif.some) =>
        LET path == emit_clif.v
            was == Lookup(fs0, path).kind
        IN  /\ \A i \in DOMAIN trace :
                  trace[i].op = "Engine::new" =>
                      /\ \E j \in 1..(i - 1) : trace[j] = Ev("is_dir", Some(path))
                      /\ \A j \in DOMAIN trace : trace[j].op \in EmitOps => j < i
                      /\ Lookup(fs, path) = Dir
                      /\ config.emit_clif = Some(path)
                      /\ was = "absent" => Called("create_dir")
            /\ (was = "file" /\ Called("exists")) =>
                  /\ Done
                  /\ result = Failed(Err("must be a directory", Some(path)))
                  /\ ~Called("create_dir")
                  /\ fs = fs0
                  /\ ~Called("Engine::new") /\ engines = 0
            /\ (Called("create_dir") /\ Lookup(fs, path) # Dir) =>
                  /\ Done
                  /\ result = Failed(Err("os error", None))
                  /\ fs = fs0
                  /\ ~Called("Engine::new") /\ engines = 0

\* --emit-clif names a regular file: the command has failed, no engine exists.
C5_Witness ==
    /\ cmd = "compile" /\ Done
    /\ emit_clif.some /\ Lookup(fs0, emit_clif.v).kind = "file"
    /\ result.status = "err" /\ result.err.path = emit_clif
    /\ engines = 0

(***************************************************************************)
(* C6.  When Engine::new refuses a flag of another backend (has_lse on     *)
(* x86_64), the error compile returns prints as exactly the backend's      *)
(* diagnostic, with no context added, and the input is not read and no     *)
(* output is written.                                                      *)
(***************************************************************************)
C6_EngineErrorVerbatim ==
    (cmd = "compile" /\ "has_lse" \in flags /\ Called("Engine::new")) =>
        /\ Done
        /\ result.status = "err"
        /\ Display(result.err) = "No existing setting named 'has_lse'"
        /\ result.err.ctx = <<>>
        /\ ~Called("read") /\ ~Called("write")
        /\ \A p \in (DOMAIN fs) \ {EmitDir} : Lookup(fs, p) = Lookup(fs0, p)

\* The has_lse flag reached Engine::new, with an -o file already on disk.
C6_Witness ==
    /\ cmd = "compile" /\ Done
    /\ "has_lse" \in flags /\ LastOp = "Engine::new"
    /\ output.some /\ Lookup(fs, output.v) = OldFile
    /\ result.status = "err"

(***************************************************************************)
(* C7.  One wast run creates exactly one engine, one store and one         *)
(* WastContext; every script runs against that context, which is never     *)
(* reset: what script i left in it is there when script j > i runs.        *)
(***************************************************************************)
C7_OneContext ==
    cmd = "wast" =>
        /\ engines <= 1 /\ stores <= 1 /\ contexts <= 1
        /\ Count("Engine::new") <= 1
        /\ Count("Store::new") <= 1
        /\ Count("WastContext::new") <= 1
        /\ runLog # <<>> => (engines = 1 /\ stores = 1 /\ contexts = 1)
        /\ \A j \in DOMAIN runLog :
              /\ runLog[j].ctx = 1
              /\ wast_context.id = runLog[j].ctx
              /\ "spectest" \in runLog[j].seen
              /\ \A i \in 1..(j - 1) :
                    /\ Declares(runLog[i].script) \subseteq runLog[j].seen
                    /\ runLog[i].seen \subseteq runLog[j].seen
        /\ \A j \in DOMAIN runLog : runLog[j].seen \subseteq wast_context.state

\* B, which reads the global A declares, ran after A and succeeded.
C7_Witness ==
    /\ cmd = "wast"
    /\ Len(runLog) >= 2
    /\ runLog[1].script = <<"A">> /\ runLog[1].ok
    /\ runLog[2].script = <<"B">> /\ runLog[2].ok
    /\ "g" \in runLog[2].seen

(***************************************************************************)
(* C8.  As claimed: every error either command returns from a step of its  *)
(* own (the configuration resolver's errors aside) carries an added        *)
(* context naming the operation and the path.                              *)
(***************************************************************************)
C8_Original ==
    (Done /\ result.status = "err" /\ LastOp # "config") =>
        /\ result.err.ctx # <<>>
        /\ result.err.ctx[Len(result.err.ctx)].path.some

(***************************************************************************)
(* C8, amended.  A failure to write the output and a failing script are    *)
(* returned with one added context naming the operation and the path; a    *)
(* failure to read or parse the input is returned with the context         *)
(* "failed to read input file", which names the path only in a build       *)
(* without the wat feature; every other error (configuration, creating     *)
(* the --emit-clif directory, the directory test, Engine::new, the input   *)
(* path validation, precompilation) is returned with no context added.     *)
(* Nothing is retried: the failing call is the last call made.             *)
(***************************************************************************)
C8_ContextWhereAdded ==
    (Done /\ result.status = "err") =>
        LET e == result.err
            last == trace[Len(trace)]
        IN  /\ trace # <<>>
            /\ CASE last.op = "write" ->
                       e.ctx = <<[op |-> "failed to write output", path |-> last.path]>>
                 [] last.op = "run_file" ->
                       e.ctx = <<[op |-> "failed to run script file", path |-> last.path]>>
                 [] last.op = "read" ->
                       e.ctx = <<[op |-> "failed to read input file",
                                  path |-> IF featWat THEN None ELSE Some(module)]>>
                 [] OTHER -> e.ctx = <<>>
            /\ last.op \in {"write", "run_file"} => last.path.some
            /\ \A op \in {"config", "exists", "create_dir", "is_dir", "Engine::new",
                          "read", "write", "register_spectest"} : Count(op) <= 1
            /\ PrecompileCalls <= 1
            /\ Count("run_file") <= Len(scripts)

\* A script failed: its path is in the context of the error returned.
C8_Witness ==
    /\ cmd = "wast" /\ Done /\ result.status = "err"
    /\ LastOp = "run_file"
    /\ result.err.ctx # <<>>

(***************************************************************************)
(* C9.  The spectest fixture is registered exactly once, after the engine, *)
(* the store and the context exist and before the first script runs; a     *)
(* failing registration panics instead of returning Err, and then no       *)
(* script is ever run.                                                     *)
(***************************************************************************)
C9_SpectestOnceOrPanic ==
    cmd = "wast" =>
        /\ Count("register_spectest") <= 1
        /\ pc = "loop" => Count("register_spectest") = 1
        /\ \A i \in DOMAIN trace :
              /\ trace[i].op = "register_spectest" =>
                    \A op \in {"Engine::new", "Store::new", "WastContext::new"} :
                        \E j \in 1..(i - 1) : trace[j].op = op
              /\ trace[i].op = "run_file" =>
                    \E j \in 1..(i - 1) : trace[j].op = "register_spectest"
        /\ (Called("register_spectest") /\ "spectest" \notin wast_context.state) =>
              /\ Done
              /\ result.status = "panic"
              /\ runLog = <<>> /\ ~Called("run_file")
        /\ result.status = "panic" => LastOp = "register_spectest"

\* The registration failed: the run panicked with no script run.
C9_Witness ==
    /\ cmd = "wast" /\ Done
    /\ result.status = "panic"
    /\ Len(scripts) >= 2 /\ runLog = <<>>

(***************************************************************************)
(* C10.  compile writes the output at most once, as its last step, and     *)
(* only when configuration, the --emit-clif step, Engine::new, the input   *)
(* path validation, loading and precompilation all succeeded; what it      *)
(* writes is the bytes the one precompile call returned.  When an earlier  *)
(* step fails the command returns an error, the output path is as it was,  *)
(* and a created --emit-clif directory stays.                              *)
(***************************************************************************)
C10_WriteLast ==
    cmd = "compile" =>
        /\ Count("write") <= 1
        /\ \A i \in DOMAIN trace : trace[i].op = "write" => i = Len(trace) /\ Done
        /\ Done => (Called("write") <=> output_bytes # NoBytes)
        /\ output_bytes # NoBytes =>
              /\ Count("config") = 1 /\ Count("Engine::new") = 1 /\ engines = 1
              /\ emit_clif.some => (config.emit_clif = emit_clif /\ Lookup(fs, EmitDir) = Dir)
              /\ FileName(module).some
              /\ Count("read") = 1 /\ input # NoBytes
              /\ PrecompileCalls = 1
              /\ output_bytes.fmt = "cwasm"
              /\ output_bytes.kind = "component" <=> Called("precompile_component")
        /\ result.status = "ok" =>
              /\ Called("write")
              /\ Lookup(fs, out_path.v) = File(output_bytes)
        /\ (Done /\ ~Called("write")) =>
              /\ result.status = "err"
              /\ \A p \in ((DOMAIN fs) \cup (DOMAIN fs0)) \ {EmitDir} :
                    Lookup(fs, p) = Lookup(fs0, p)
              /\ output.some => Lookup(fs, output.v) = Lookup(fs0, output.v)
        /\ (Called("create_dir") /\ LastOp # "create_dir") => Lookup(fs, EmitDir) = Dir
        /\ \A p \in DOMAIN fs0 : Lookup(fs0, p).kind = "dir" => Lookup(fs, p) = Dir

\* An existing -o file was overwritten with the artifact, the --emit-clif
\* directory having been created on the way.
C10_Witness ==
    /\ cmd = "compile" /\ Done /\ result.status = "ok"
    /\ output.some /\ Lookup(fs0, output.v) = OldFile
    /\ Lookup(fs, output.v) = File(Bytes("cwasm", "module"))
    /\ Called("create_dir")

\* Precompilation failed after the --emit-clif directory was created: the
\* -o file is as it was and the directory is still there.
C10_FailureWitness ==
    /\ cmd = "compile" /\ Done /\ result.status = "err"
    /\ PrecompileCalls = 1 /\ ~Called("write")
    /\ Called("create_dir") /\ Lookup(fs, EmitDir) = Dir

====
